---- MODULE Spec2Model ----
(***************************************************************************)
(* Sentinel-1 pipeline (s1-pipeline): the catalog matcher of helpers.py    *)
(* and the four pipeline variants (cdse_gdal, cdse_pyrosar, cog_gdal,      *)
(* asf_pyrosar) as state machines.                                         *)
(*                                                                         *)
(* Strings of the program are sequences of one-character strings, so that  *)
(* the regular expressions and str.startswith of the source are computed   *)
(* character by character.                                                 *)
(***************************************************************************)
EXTENDS Integers, Sequences, FiniteSets, TLC

VARIABLES
    variant,     \* which entry point runs: a pipeline, or the matcher called alone
    pc,          \* position of the run
    stac_id,     \* item.id of the catalog-A item (cdse_*.py: stac_id)
    request,     \* the OData query parameters sent to catalog B (helpers.py: params)
    vals,        \* the candidate list of the OData answer (helpers.py: vals)
    parsed,      \* (t0, t1) returned by parse_s1_times_from_name
    prefix,      \* the prefix the matcher compares names with (helpers.py: prefix)
    product,     \* (Id, Name) returned by cdse_odata_find_s1_grdh_product
    err,         \* the exception that left the run, None while there is none
    vv_tif,      \* metadata of the raw/geocoded VV raster handed to the clipper
    vh_tif,      \* metadata of the raw/geocoded VH raster handed to the clipper
    files,       \* dist/ directory: file name -> metadata of the raster written
    stages,      \* the stages this run has executed, in order
    pipeline,    \* main.py: the pipeline argument of main, None without main.py
    workdir,     \* the working directory os.makedirs has created, None before
    vv_db,       \* asf_pyrosar.py: the pixels of the clipped VV band
    vh_db,       \* asf_pyrosar.py: the pixels of the clipped VH band
    rgb          \* asf_pyrosar.py: the composite build_sar_rgb returns

vars == <<variant, pc, stac_id, request, vals, parsed, prefix, product, err,
          vv_tif, vh_tif, files, stages, pipeline, workdir, vv_db, vh_db, rgb>>

\* the arguments and the directory of the entry point: no stage changes them
entry == <<pipeline, workdir>>

\* the pixel arrays of the composite step
pixels == <<vv_db, vh_db, rgb>>

None == [none |-> TRUE]

\* an exception: its class and its message
Error(type, msg) == [type |-> type, msg |-> msg]

-----------------------------------------------------------------------------
(* Bounds of the model *)

\* largest number of candidates catalog B answers with
MaxVals == 3
\* publication dates of catalog B are 1..MaxPub
MaxPub == 2
\* rasters are at most MaxDim pixels wide and high
MaxDim == 3

-----------------------------------------------------------------------------
(* Characters and strings *)

\* the digits 0-9 of ASCII
Digits == <<"0", "1", "2", "3", "4", "5", "6", "7", "8", "9">>

\* decimal digits of other scripts (Unicode category Nd), written by their
\* code points: ARABIC-INDIC DIGIT THREE, FULLWIDTH DIGIT TWO, DEVANAGARI
\* DIGIT FIVE; each is one character of a string
UnicodeDigits ==
    { [char |-> "U+0663", val |-> 3], [char |-> "U+FF12", val |-> 2],
      [char |-> "U+096B", val |-> 5] }

\* [0-9]
IsAsciiDigit(c) == \E i \in 1..10 : Digits[i] = c

\* \d of a str pattern: every decimal digit, of ASCII or not
IsDigit(c) == IsAsciiDigit(c) \/ \E d \in UnicodeDigits : d.char = c

\* int(c) of a decimal digit
DigitVal(c) ==
    IF IsAsciiDigit(c) THEN (CHOOSE i \in 1..10 : Digits[i] = c) - 1
    ELSE (CHOOSE d \in UnicodeDigits : d.char = c).val

\* the character class [0-9A-F] of the prefix pattern
IsHexUpper(c) == IsAsciiDigit(c) \/ c \in {"A", "B", "C", "D", "E", "F"}

\* str.startswith
StartsWith(s, p) == Len(p) <= Len(s) /\ SubSeq(s, 1, Len(p)) = p

\* str.endswith
EndsWith(s, p) == Len(p) <= Len(s) /\ SubSeq(s, Len(s) - Len(p) + 1, Len(s)) = p

Pad2(n) == <<Digits[((n \div 10) % 10) + 1], Digits[(n % 10) + 1]>>

\* the four digits of the year of a product name
Pad4(n) == Pad2(n \div 100) \o Pad2(n % 100)

\* strftime %Y of glibc: the decimal digits of the year, a year below 1000
\* without leading zeros
RECURSIVE StrfY(_)
StrfY(n) == IF n < 10 THEN <<Digits[n + 1]>> ELSE StrfY(n \div 10) \o <<Digits[(n % 10) + 1]>>

\* the 15 characters YYYYMMDDThhmmss of a date-time
Stamp(dt) == Pad4(dt.Y) \o Pad2(dt.M) \o Pad2(dt.D) \o <<"T">>
             \o Pad2(dt.h) \o Pad2(dt.m) \o Pad2(dt.s)

DT(Y, M, D, h, m, s) == [Y |-> Y, M |-> M, D |-> D, h |-> h, m |-> m, s |-> s]

-----------------------------------------------------------------------------
(* parse_s1_times_from_name *)

\* \d{8}T\d{6} at s[i..i+14]
IsStampAt(s, i) ==
    /\ i + 14 <= Len(s)
    /\ \A k \in 0..7 : IsDigit(s[i + k])
    /\ s[i + 8] = "T"
    /\ \A k \in 9..14 : IsDigit(s[i + k])

\* _(\d{8}T\d{6})_(\d{8}T\d{6})_ at s[i..i+32]
TimesPatternAt(s, i) ==
    /\ i >= 1
    /\ i + 32 <= Len(s)
    /\ s[i] = "_"
    /\ IsStampAt(s, i + 1)
    /\ s[i + 16] = "_"
    /\ IsStampAt(s, i + 17)
    /\ s[i + 32] = "_"

Num2(s, i) == 10 * DigitVal(s[i]) + DigitVal(s[i + 1])

IsLeap(y) == ((y % 4) = 0 /\ (y % 100) # 0) \/ (y % 400) = 0

DaysInMonth(y, m) ==
    IF m = 2 THEN (IF IsLeap(y) THEN 29 ELSE 28)
    ELSE IF m \in {4, 6, 9, 11} THEN 30 ELSE 31

\* the fields of the 15 characters at s[i..], as "%Y%m%dT%H%M%S" reads them
StampFields(s, i) ==
    DT(100 * Num2(s, i) + Num2(s, i + 2), Num2(s, i + 4), Num2(s, i + 6),
       Num2(s, i + 9), Num2(s, i + 11), Num2(s, i + 13))

\* the pattern strptime compiles for "%Y%m%dT%H%M%S", on the 15 characters at
\* s[i..]: %Y is \d\d\d\d, %m is 1[0-2]|0[1-9], %d is 3[0-1]|[1-2]\d|0[1-9],
\* %H is 2[0-3]|[0-1]\d, %M is [0-5]\d, %S is 6[0-1]|[0-5]\d; the one-digit
\* alternatives of %m, %d, %H, %M and %S leave characters unconverted
StrptimeMatches(s, i) ==
    LET In(k, lo, hi) == IsAsciiDigit(s[i + k]) /\ DigitVal(s[i + k]) \in lo..hi IN
    /\ \A k \in 0..3 : IsDigit(s[i + k])
    /\ \/ In(4, 1, 1) /\ In(5, 0, 2)
       \/ In(4, 0, 0) /\ In(5, 1, 9)
    /\ \/ In(6, 3, 3) /\ In(7, 0, 1)
       \/ In(6, 1, 2) /\ IsDigit(s[i + 7])
       \/ In(6, 0, 0) /\ In(7, 1, 9)
    /\ s[i + 8] = "T"
    /\ \/ In(9, 2, 2) /\ In(10, 0, 3)
       \/ In(9, 0, 1) /\ IsDigit(s[i + 10])
    /\ In(11, 0, 5) /\ IsDigit(s[i + 12])
    /\ \/ In(13, 6, 6) /\ In(14, 0, 1)
       \/ In(13, 0, 5) /\ IsDigit(s[i + 14])

\* datetime.strptime accepts the fields: a date of the calendar, a time of day
ValidDateTime(dt) ==
    /\ dt.Y >= 1
    /\ dt.M \in 1..12
    /\ dt.D >= 1 /\ dt.D <= DaysInMonth(dt.Y, dt.M)
    /\ dt.h <= 23 /\ dt.m <= 59 /\ dt.s <= 59

\* re.search: the leftmost position where the pattern matches, 0 when none
TimesMatchPos(s) ==
    IF \E i \in 1..Len(s) : TimesPatternAt(s, i)
    THEN CHOOSE i \in 1..Len(s) :
            TimesPatternAt(s, i) /\ \A j \in 1..(i - 1) : ~TimesPatternAt(s, j)
    ELSE 0

parse_s1_times_from_name(name_or_id) ==
    LET i == TimesMatchPos(name_or_id) IN
    IF i = 0 THEN [ok |-> FALSE, error |-> Error("ValueError", "Could not parse sensing times")]
    ELSE LET t0 == StampFields(name_or_id, i + 1)
             t1 == StampFields(name_or_id, i + 17)
         IN IF /\ StrptimeMatches(name_or_id, i + 1) /\ ValidDateTime(t0)
               /\ StrptimeMatches(name_or_id, i + 17) /\ ValidDateTime(t1)
            THEN [ok |-> TRUE, t0 |-> t0, t1 |-> t1]
            ELSE [ok |-> FALSE, error |-> Error("ValueError", "time data does not match format")]

\* t0 <= t1 on date-times
DTKey(dt) == <<dt.Y, dt.M, dt.D, dt.h, dt.m, dt.s>>

RECURSIVE LexLeq(_, _, _)
LexLeq(a, b, i) ==
    IF i > Len(a) THEN TRUE
    ELSE IF a[i] < b[i] THEN TRUE
    ELSE IF a[i] > b[i] THEN FALSE
    ELSE LexLeq(a, b, i + 1)

DTLeq(a, b) == LexLeq(DTKey(a), DTKey(b), 1)

-----------------------------------------------------------------------------
(* the prefix of cdse_odata_find_s1_grdh_product *)

COG == <<"_", "C", "O", "G">>

\* $ after s[1..j]: the end of the string, or just before a newline that is
\* its last character
AtEnd(s, j) == j = Len(s) \/ (j + 1 = Len(s) /\ s[Len(s)] = "\n")

\* the position where the match of _[0-9A-F]{4}(_COG)?$ at s[i] ends, 0 when
\* the pattern does not match there; _COG is taken when it can be
VariantMatchEnd(s, i) ==
    IF ~(i >= 1 /\ i + 4 <= Len(s) /\ s[i] = "_" /\ \A k \in 1..4 : IsHexUpper(s[i + k]))
    THEN 0
    ELSE IF i + 8 <= Len(s) /\ SubSeq(s, i + 5, i + 8) = COG /\ AtEnd(s, i + 8) THEN i + 8
    ELSE IF AtEnd(s, i + 4) THEN i + 4
    ELSE 0

\* _[0-9A-F]{4}(_COG)?$ matches at s[i]
VariantPatternAt(s, i) == VariantMatchEnd(s, i) # 0

\* the pattern without (_COG)?: a trailing _COG keeps the variant code in place
StripVariant_noCog(s) ==
    IF Len(s) >= 5 /\ s[Len(s) - 4] = "_" /\ \A k \in 1..4 : IsHexUpper(s[Len(s) - 4 + k])
    THEN SubSeq(s, 1, Len(s) - 5)
    ELSE s

\* re.sub(r"_[0-9A-F]{4}(_COG)?$", "", s): the leftmost match is removed, a
\* newline after it stays
StripVariant(s) ==
    IF \E i \in 1..Len(s) : VariantPatternAt(s, i)
    THEN LET i == CHOOSE k \in 1..Len(s) :
                     VariantPatternAt(s, k) /\ \A j \in 1..(k - 1) : ~VariantPatternAt(s, j)
         IN SubSeq(s, 1, i - 1) \o SubSeq(s, VariantMatchEnd(s, i) + 1, Len(s))
    ELSE s

-----------------------------------------------------------------------------
(* Scene identifiers of catalog A and product names of catalog B *)

Mission == <<"S", "1", "A", "_", "I", "W", "_", "G", "R", "D", "H", "_", "1", "S", "D", "V">>

\* absolute orbit and data-take of a product name
Take == <<"_", "0", "6", "2", "1", "0", "3", "_", "0", "7", "C", "9", "A", "1">>

SAFE == <<".", "S", "A", "F", "E">>

TA == DT(2025, 1, 1, 0, 0, 0)
TA3 == DT(2025, 1, 1, 0, 0, 3)
TB == DT(2025, 1, 1, 0, 0, 25)

\* Mission_start_end_orbit_take: a scene name up to its variant code
SceneStem(t0, t1) == Mission \o <<"_">> \o Stamp(t0) \o <<"_">> \o Stamp(t1) \o Take

\* the characters variant codes are drawn from: a digit, a hex letter, a letter
\* that is no hex digit, a lower-case hex letter
CodeChars == {"0", "F", "G", "a"}

VariantCodes == {<<a, b, c, d>> : a \in {"0", "G"}, b \in {"F", "a"}, c \in CodeChars, d \in CodeChars}
                \cup {<<"1", "2", "3", "4">>, <<"0", "F", "0", "F">>}

\* identifiers whose times parse, with every variant code, with and without _COG
CodedIds == {SceneStem(TA, TB) \o <<"_">> \o c \o cog : c \in VariantCodes, cog \in {<<>>, COG}}

\* identifiers of other shapes: no variant code, a code of 5 characters, _COG
\* twice, two codes, sensing times in either order, times that are no date,
\* no times at all, no underscore after the second time
OtherIds ==
    { SceneStem(TA, TB),
      SceneStem(TA, TB) \o COG,
      SceneStem(TA, TB) \o <<"_", "1", "2", "3", "4", "5">>,
      SceneStem(TA, TB) \o <<"_", "1", "2", "3", "4">> \o COG \o COG,
      SceneStem(TA, TB) \o <<"_", "1", "2", "3", "4", "_", "0", "F", "0", "F">>,
      SceneStem(TB, TA) \o <<"_", "1", "2", "3", "4">>,
      SceneStem(TA, TA) \o <<"_", "1", "2", "3", "4">> \o COG,
      SceneStem(DT(2025, 13, 1, 0, 0, 0), TB) \o <<"_", "1", "2", "3", "4">>,
      SceneStem(TA, DT(2025, 2, 30, 0, 0, 0)) \o <<"_", "1", "2", "3", "4">>,
      SceneStem(TA, DT(2025, 1, 1, 0, 0, 60)) \o <<"_", "1", "2", "3", "4">>,
      Mission \o <<"_", "1", "2", "3", "4">>,
      Mission \o <<"_">> \o Stamp(TA) \o <<"_">> \o Stamp(TB) }

\* identifiers whose sensing start is within five seconds of the end of a
\* year, of a leap day, of the February of a year that is no leap year, of
\* the first and the last day a date can hold, and in years of fewer than
\* four digits
BoundaryIds ==
    { SceneStem(t, DT(2025, 1, 1, 0, 0, 25)) \o <<"_", "1", "2", "3", "4">> :
        t \in { DT(2024, 12, 31, 23, 59, 58), DT(2024, 2, 29, 23, 59, 57),
                DT(2100, 2, 28, 23, 59, 59), DT(1, 1, 1, 0, 0, 3),
                DT(9999, 12, 31, 23, 59, 59), DT(999, 12, 31, 23, 59, 59),
                DT(1, 1, 1, 0, 0, 5) } }

\* s with the characters at the positions of DOMAIN f replaced
Replace(s, f) == [i \in 1..Len(s) |-> IF i \in DOMAIN f THEN f[i] ELSE s[i]]

\* identifiers that hold a decimal digit of another script: as the second
\* digit of the day of the start (the 13th, later than the end), in the year
\* of the start, as the last digit of the seconds of the end, in the month of
\* the start, in the variant code
NonAsciiIds ==
    LET id == SceneStem(TA, TB) \o <<"_", "1", "2", "3", "4">> IN
    { Replace(id, (24 :> "1") @@ (25 :> "U+0663")),
      Replace(id, (18 :> "U+FF12") @@ (20 :> "U+FF12")),
      Replace(id, 48 :> "U+096B"),
      Replace(id, 23 :> "U+FF12"),
      Replace(id, 65 :> "U+0663") }

\* identifiers that end with a newline: after the variant code, after _COG,
\* and with two newlines
NewlineIds ==
    LET id == SceneStem(TA, TB) \o <<"_", "1", "2", "3", "4">> IN
    { id \o <<"\n">>, id \o COG \o <<"\n">>, id \o <<"\n", "\n">> }

StacIds == CodedIds \cup OtherIds \cup BoundaryIds \cup NonAsciiIds \cup NewlineIds

\* names catalog B holds: two variants of the scene (TA, TB), a scene that
\* starts three seconds later, a name with a non-hexadecimal code
CatalogNames ==
    << SceneStem(TA, TB) \o <<"_", "1", "2", "3", "4">> \o SAFE,
       SceneStem(TA, TB) \o <<"_", "0", "F", "0", "F">> \o SAFE,
       SceneStem(TA3, TB) \o <<"_", "1", "2", "3", "4">> \o SAFE,
       SceneStem(TA, TB) \o <<"_", "G", "F", "G", "G">> \o SAFE >>

\* the records of catalog B: Id, Name, PublicationDate ($select)
ProductPool ==
    { [Id |-> (i - 1) * 100 + d, Name |-> CatalogNames[i], PublicationDate |-> d] :
        i \in 1..Len(CatalogNames), d \in 1..MaxPub }

-----------------------------------------------------------------------------
(* cdse_odata_find_s1_grdh_product *)

\* the area of interest, in units of one pixel of the rasters of the model
Bbox4326 == [minx |-> 0, miny |-> 0, maxx |-> MaxDim, maxy |-> MaxDim]

\* timedelta(seconds=5)
ToleranceSeconds == 5

RECURSIVE DaysBeforeMonth(_, _)
DaysBeforeMonth(y, m) ==
    IF m = 1 THEN 0 ELSE DaysBeforeMonth(y, m - 1) + DaysInMonth(y, m - 1)

\* date.toordinal: the number of the day, 1 for 0001-01-01
ToOrdinal(dt) ==
    LET y == dt.Y - 1 IN
    (y * 365) + (y \div 4) - (y \div 100) + (y \div 400) + DaysBeforeMonth(dt.Y, dt.M) + dt.D

\* date.max.toordinal()
MaxOrdinal == ToOrdinal(DT(9999, 12, 31, 0, 0, 0))

\* date.fromordinal: cycles of 400, 100, 4 and 1 years, then the month
FromOrdinal(n) ==
    LET n400 == (n - 1) \div 146097
        r400 == (n - 1) % 146097
        n100 == r400 \div 36524
        r100 == r400 % 36524
        n4 == r100 \div 1461
        r4 == r100 % 1461
        n1 == r4 \div 365
        r1 == r4 % 365
        year == (400 * n400) + (100 * n100) + (4 * n4) + n1 + 1
    IN IF n1 = 4 \/ n100 = 4 THEN [Y |-> year - 1, M |-> 12, D |-> 31]
       ELSE LET month == CHOOSE m \in 1..12 :
                             /\ DaysBeforeMonth(year, m) <= r1
                             /\ r1 < DaysBeforeMonth(year, m) + DaysInMonth(year, m)
            IN [Y |-> year, M |-> month, D |-> r1 - DaysBeforeMonth(year, month) + 1]

\* dt + timedelta(seconds=k): the date-time, or OverflowError when the day
\* leaves 0001-01-01 .. 9999-12-31
AddSeconds(dt, k) ==
    LET total == (3600 * dt.h) + (60 * dt.m) + dt.s + k
        day == ToOrdinal(dt) + (total \div 86400)
        sec == total % 86400
        d == FromOrdinal(day)
    IN IF day < 1 \/ day > MaxOrdinal
       THEN [ok |-> FALSE, error |-> Error("OverflowError", "date value out of range")]
       ELSE [ok |-> TRUE,
             dt |-> DT(d.Y, d.M, d.D, sec \div 3600, (sec % 3600) \div 60, sec % 60)]

\* strftime("%Y-%m-%dT%H:%M:%S.000Z")
Iso(dt) ==
    StrfY(dt.Y) \o <<"-">> \o Pad2(dt.M) \o <<"-">> \o Pad2(dt.D) \o <<"T">>
    \o Pad2(dt.h) \o <<":">> \o Pad2(dt.m) \o <<":">> \o Pad2(dt.s)
    \o <<".", "0", "0", "0", "Z">>

\* a window of the same width that begins at the sensing start
SensingWindow_fromStart(t0) ==
    LET b == AddSeconds(t0, 2 * ToleranceSeconds) IN
    IF ~b.ok THEN b ELSE [ok |-> TRUE, t_start |-> Iso(t0), t_end |-> Iso(b.dt)]

\* t_start and t_end: t0 - 5 s and t0 + 5 s, formatted; the exception of the
\* first subtraction or addition that overflows
SensingWindow(t0) ==
    LET a == AddSeconds(t0, 0 - ToleranceSeconds)
        b == AddSeconds(t0, ToleranceSeconds)
    IN IF ~a.ok THEN a
       ELSE IF ~b.ok THEN b
       ELSE [ok |-> TRUE, t_start |-> Iso(a.dt), t_end |-> Iso(b.dt)]

\* bbox4326_to_odata_polygon: geography'SRID=4326;POLYGON((...))', a closed ring
bbox4326_to_odata_polygon(bbox) ==
    [srid |-> 4326,
     polygon |-> << <<bbox.minx, bbox.miny>>, <<bbox.maxx, bbox.miny>>,
                    <<bbox.maxx, bbox.maxy>>, <<bbox.minx, bbox.maxy>>,
                    <<bbox.minx, bbox.miny>> >>]

IW_GRDH == <<"I", "W", "_", "G", "R", "D", "H">>

safe == <<".", "s", "a", "f", "e">>

\* a term of an OData filter: an operator and its operands
Term(op, args) == [op |-> op, args |-> args]

\* filter_expr: seven terms joined by "and"
ODataFilter(poly, window) ==
    Term("and",
         << Term("eq", <<"Collection/Name", "SENTINEL-1">>),
            Term("contains", <<"Name", IW_GRDH>>),
            Term("or", << Term("endswith", <<"Name", SAFE>>),
                          Term("endswith", <<"Name", safe>>) >>),
            Term("not", << Term("contains", <<"Name", COG>>) >>),
            Term("intersects", <<"area", poly>>),
            Term("ge", <<"ContentDate/Start", window.t_start>>),
            Term("le", <<"ContentDate/Start", window.t_end>>) >>)

Select == "Id,Name,ContentDate,PublicationDate"

\* top=10, the default of the parameter
Top == 10

OrderByPublicationDesc == "PublicationDate desc"

\* the query without $orderby
ODataParams_unordered(t0, top) ==
    [filter |-> ODataFilter(bbox4326_to_odata_polygon(Bbox4326), SensingWindow(t0)),
     select |-> Select, orderby |-> "", top |-> top]

\* params: $filter, $select, $orderby and $top
ODataParams(t0, top) ==
    [filter |-> ODataFilter(bbox4326_to_odata_polygon(Bbox4326), SensingWindow(t0)),
     select |-> Select, orderby |-> OrderByPublicationDesc, top |-> top]

Distinct(s) == \A i, j \in 1..Len(s) : i # j => s[i] # s[j]

SortedByPublicationDesc(s) ==
    \A i \in 1..(Len(s) - 1) : s[i].PublicationDate >= s[i + 1].PublicationDate

CandidateLists == UNION {[1..n -> ProductPool] : n \in 0..MaxVals}

AnyOrderLists == {s \in CandidateLists : Distinct(s)}

SortedLists == {s \in AnyOrderLists : SortedByPublicationDesc(s)}

\* what catalog B may answer to the query: at most $top records, in the
\* order $orderby asks for (records of one publication date in any order)
ODataResponses(params) ==
    {s \in (IF params.orderby = OrderByPublicationDesc THEN SortedLists ELSE AnyOrderLists) :
        Len(s) <= params.top}

SetMin(S) == CHOOSE x \in S : \A y \in S : x <= y

\* raise RuntimeError("OData returned no products for AOI + sensing time window.")
NoProductsError == Error("RuntimeError", "OData returned no products for AOI + sensing time window.")

\* the loop without its break: the last prefix match wins
SelectBest_lastMatch(v, pre) ==
    LET hits == {i \in 1..Len(v) : StartsWith(v[i].Name, pre)} IN
    IF hits # {} THEN v[CHOOSE i \in hits : \A j \in hits : j <= i] ELSE v[1]

\* a fallback that derives the SAFE name from the prefix instead of taking vals[0]
SelectBest_derivedName(v, pre) ==
    LET hits == {i \in 1..Len(v) : StartsWith(v[i].Name, pre)} IN
    IF hits # {} THEN v[SetMin(hits)]
    ELSE [Id |-> v[1].Id, Name |-> pre \o SAFE, PublicationDate |-> v[1].PublicationDate]

\* the loop over vals and "best = best or vals[0]"
SelectBest(v, pre) ==
    LET hits == {i \in 1..Len(v) : StartsWith(v[i].Name, pre)} IN
    IF hits # {} THEN v[SetMin(hits)] ELSE v[1]

\* return best["Id"], best["Name"]
IdName(best) == [Id |-> best.Id, Name |-> best.Name]

\* the call cdse_odata_find_s1_grdh_product(bbox4326, stac_id): the run goes
\* on at `after` with the pair returned, or ends with the exception raised
FindProduct(after) ==
    LET p == parse_s1_times_from_name(stac_id) IN
    IF ~p.ok
    THEN /\ err' = p.error
         /\ pc' = "raised"
         /\ UNCHANGED <<request, vals, parsed, prefix, product>>
    ELSE IF ~SensingWindow(p.t0).ok
    THEN /\ parsed' = [t0 |-> p.t0, t1 |-> p.t1]
         /\ err' = SensingWindow(p.t0).error
         /\ pc' = "raised"
         /\ UNCHANGED <<request, vals, prefix, product>>
    ELSE /\ parsed' = [t0 |-> p.t0, t1 |-> p.t1]
         /\ request' = ODataParams(p.t0, Top)
         /\ \/ /\ err' = Error("RequestException", "requests.get failed")
               /\ pc' = "raised"
               /\ UNCHANGED <<vals, prefix, product>>
            \/ \E v \in ODataResponses(request') :
                 /\ vals' = v
                 /\ IF v = <<>>
                    THEN /\ err' = NoProductsError
                         /\ pc' = "raised"
                         /\ UNCHANGED <<prefix, product>>
                    ELSE /\ prefix' = StripVariant(stac_id)
                         /\ product' = IdName(SelectBest(v, prefix'))
                         /\ pc' = after
                         /\ UNCHANGED err

-----------------------------------------------------------------------------
(* The matcher called alone, on every identifier of StacIds *)

InitMatcher ==
    /\ variant = "matcher"
    /\ pc = "match"
    /\ stac_id \in StacIds
    /\ request = None /\ vals = <<>> /\ parsed = None /\ prefix = None
    /\ product = None
    /\ err = None
    /\ vv_tif = None /\ vh_tif = None
    /\ files = <<>>
    /\ stages = <<>>
    /\ pipeline = None /\ workdir = None
    /\ vv_db = None /\ vh_db = None /\ rgb = None

CallFindProduct ==
    /\ variant = "matcher"
    /\ pc = "match"
    /\ FindProduct("returned")
    /\ stages' = Append(stages, "match")
    /\ UNCHANGED <<entry, pixels, variant, stac_id, vv_tif, vh_tif, files>>

NextMatcher == CallFindProduct

SpecMatcher == InitMatcher /\ [][NextMatcher]_vars

-----------------------------------------------------------------------------
(* Rasters: the metadata rasterio and GDAL read and write *)

\* bounds of the model, continued: catalog A answers with at most MaxItems items
MaxItems == 2

RECURSIVE GCD(_, _)
GCD(a, b) == IF b = 0 THEN a ELSE GCD(b, a % b)

\* the number n/d, in lowest terms
Frac(n, d) == [num |-> n \div GCD(n, d), den |-> d \div GCD(n, d)]

FloorDiv(a, b) == a \div b

CeilDiv(a, b) == 0 - ((0 - a) \div b)

Max2(a, b) == IF a >= b THEN a ELSE b

Min2(a, b) == IF a <= b THEN a ELSE b

\* src.crs is None
NoCRS == "None"

CRS4326 == "EPSG:4326"

CRS32634 == "EPSG:32634"

\* a north-up affine transform: upper-left corner and pixel size
Affine(xoff, yoff, xres, yres) == [xoff |-> xoff, yoff |-> yoff, xres |-> xres, yres |-> yres]

\* the single-band GeoTIFFs the geocoding engine may leave in rtc_out: with or
\* without a CRS, of several extents, beside or off the area of interest
AffineSources ==
    { [driver |-> "GTiff", crs |-> c, transform |-> Affine(x, MaxDim, Frac(1, 1), Frac(1, 1)),
       width |-> w, height |-> h, count |-> 1, dtype |-> "float32", nodata |-> 0] :
        c \in {NoCRS, CRS4326, CRS32634}, x \in {0, 1, MaxDim},
        w \in (MaxDim - 1)..MaxDim, h \in (MaxDim - 1)..MaxDim }

\* the measurement TIFFs of a SAFE archive and the COG assets: no CRS, ground
\* control points of some spacing; a file GDAL cannot open is not readable
GcpSources ==
    { [driver |-> "GTiff", crs |-> NoCRS, gcps |-> TRUE, spacing |-> r, readable |-> b,
       count |-> 1, dtype |-> "uint16"] : r \in 1..MaxDim, b \in BOOLEAN }

\* Transformer.from_crs("EPSG:4326", crs, always_xy=True) on the corners of the
\* box: the identity on EPSG:4326, metres for degrees on EPSG:32634
ProjectBox(crs, b) ==
    IF crs = CRS4326 THEN b
    ELSE [minx |-> 2 * b.minx, miny |-> 2 * b.miny, maxx |-> 2 * b.maxx, maxy |-> 2 * b.maxy]

\* rasterio.mask.mask(src, [geom], crop=True): the window of src that covers
\* the geometry, cut to the raster
CropWindow(src, g) ==
    LET t == src.transform IN
    [col_off  |-> Max2(0, FloorDiv((g.minx - t.xoff) * t.xres.den, t.xres.num)),
     col_stop |-> Min2(src.width, CeilDiv((g.maxx - t.xoff) * t.xres.den, t.xres.num)),
     row_off  |-> Max2(0, FloorDiv((t.yoff - g.maxy) * t.yres.den, t.yres.num)),
     row_stop |-> Min2(src.height, CeilDiv((t.yoff - g.miny) * t.yres.den, t.yres.num))]

\* the clip without the test of src.crs
clip_to_bbox4326_unchecked(src, bbox4326) ==
    LET win == CropWindow(src, ProjectBox(src.crs, bbox4326))
        t == src.transform
    IN IF win.col_stop <= win.col_off \/ win.row_stop <= win.row_off
       THEN [ok |-> FALSE, error |-> Error("ValueError", "Input shapes do not overlap raster.")]
       ELSE [ok |-> TRUE,
             meta |-> [src EXCEPT
                 !.height = win.row_stop - win.row_off,
                 !.width = win.col_stop - win.col_off,
                 !.transform = Affine(t.xoff + (win.col_off * t.xres.num) \div t.xres.den,
                                      t.yoff - (win.row_off * t.yres.num) \div t.yres.den,
                                      t.xres, t.yres)]]

\* clip_to_bbox4326(in_path, out_path, bbox4326): the exception raised, or the
\* metadata written to out_path
clip_to_bbox4326(src, bbox4326) ==
    IF src.crs = NoCRS
    THEN [ok |-> FALSE, error |-> Error("ValueError", "has no CRS; cannot clip.")]
    ELSE LET win == CropWindow(src, ProjectBox(src.crs, bbox4326))
             t == src.transform
         IN IF win.col_stop <= win.col_off \/ win.row_stop <= win.row_off
            THEN [ok |-> FALSE, error |-> Error("ValueError", "Input shapes do not overlap raster.")]
            ELSE [ok |-> TRUE,
                  meta |-> [src EXCEPT
                      !.height = win.row_stop - win.row_off,
                      !.width = win.col_stop - win.col_off,
                      !.transform = Affine(t.xoff + (win.col_off * t.xres.num) \div t.xres.den,
                                           t.yoff - (win.row_off * t.yres.num) \div t.yres.den,
                                           t.xres, t.yres)]]

\* the number of pixels GDAL gives an extent at the pixel size it suggests
WarpPixels(extent, res) == (2 * extent + res) \div (2 * res)

\* warp_gcps_clip(src_tif, dst_tif, bbox4326): the exception raised, or the
\* metadata of the raster written: EPSG:4326, the bounds of the box, UInt16
warp_gcps_clip(src, bbox4326) ==
    LET nx == WarpPixels(bbox4326.maxx - bbox4326.minx, src.spacing)
        ny == WarpPixels(bbox4326.maxy - bbox4326.miny, src.spacing)
    IN IF ~src.readable \/ nx = 0 \/ ny = 0
       THEN [ok |-> FALSE, error |-> Error("RuntimeError", "GDAL warp failed")]
       ELSE [ok |-> TRUE,
             meta |-> [driver |-> "GTiff", crs |-> CRS4326,
                       transform |-> Affine(bbox4326.minx, bbox4326.maxy,
                                            Frac(bbox4326.maxx - bbox4326.minx, nx),
                                            Frac(bbox4326.maxy - bbox4326.miny, ny)),
                       width |-> nx, height |-> ny, count |-> 1,
                       dtype |-> "uint16", nodata |-> 0]]

\* the test without its last comparison
Misaligned_noHeight(a, b) ==
    a.crs # b.crs \/ a.transform # b.transform \/ a.width # b.width

\* the test on the CRS alone
Misaligned_crsOnly(a, b) == a.crs # b.crs

\* the test of "Verify alignment": TRUE when the exception is raised
Misaligned(a, b) ==
    a.crs # b.crs \/ a.transform # b.transform \/ a.width # b.width \/ a.height # b.height

AlignmentError ==
    Error("RuntimeError",
          "Clipped VV and VH are not perfectly aligned. Use a shared-window clip if needed.")

\* write_rgb_geotiff(rgb, vv_src.profile, rgb_path): the metadata written
write_rgb_geotiff(ref_profile) ==
    [ref_profile EXCEPT !.count = 3, !.dtype = "uint8", !.nodata = None]

-----------------------------------------------------------------------------
(* The composite: stretch01 and build_sar_rgb on pixel arrays *)

\* bounds of the model, continued: a band has at most MaxPixels pixels
MaxPixels == 3

\* pmin=2, pmax=98, the defaults of stretch01
Pmin == 2

Pmax == 98

\* A pixel is not-a-number, or the number num / (den + eps * 1e-10): eps is 0
\* for the numbers read from a raster, for 0 and 1 and for the float32 values
\* stretch01 returns, and 1 for the quotient inside stretch01, whose
\* denominator is hi - lo + 1e-12 with hi - lo = den / 100
NaN == [nan |-> TRUE, num |-> 0, den |-> 1, eps |-> 0]

Px(n) == [nan |-> FALSE, num |-> n, den |-> 1, eps |-> 0]

\* the values in dB a clipped band holds; 0 is the nodata value of the rasters
DbValues == {-2, 0, 1}

Bands(n) == [1..n -> {Px(v) : v \in DbValues}]

\* the clipped GeoTIFFs "Verify alignment" has passed: band 1 and the nodata
\* value of the dataset, which a GeoTIFF may not declare
ClippedBands(n) == [nodata : {None, Px(0)}, band : Bands(n)]

\* band 1 of a raster the clipper has written, row after row: width * height
\* pixels, the values of a band of MaxPixels pixels repeated
RasterBands(meta) ==
    { [i \in 1..(meta.width * meta.height) |-> b[((i - 1) % MaxPixels) + 1]] :
        b \in Bands(MaxPixels) }

\* np.where(band == nodata, np.nan, band), skipped when nodata is None
NodataToNaN(band, nodata) ==
    IF nodata = None THEN band
    ELSE [i \in 1..Len(band) |-> IF band[i] = nodata THEN NaN ELSE band[i]]

\* the numbers of x that are not NaN, in ascending order
SortedValid(x) ==
    LET idx == {i \in 1..Len(x) : ~x[i].nan}
        below(v) == Cardinality({i \in idx : x[i].num < v})
        upto(v) == Cardinality({i \in idx : x[i].num <= v})
    IN [k \in 1..Cardinality(idx) |->
           CHOOSE v \in {x[i].num : i \in idx} : below(v) < k /\ k <= upto(v)]

\* np.nanpercentile(x, q), method "linear": the value at the virtual index
\* q / 100 * (n - 1) of the sorted numbers, in hundredths; NaN when x holds
\* no number
nanpercentile(x, q) ==
    LET s == SortedValid(x)
        n == Len(s)
        i == (q * (n - 1)) \div 100
        r == (q * (n - 1)) % 100
    IN IF n = 0 THEN NaN
       ELSE [nan |-> FALSE,
             num |-> 100 * s[i + 1] + (IF r = 0 THEN 0 ELSE r * (s[i + 2] - s[i + 1])),
             den |-> 100, eps |-> 0]

\* (x - lo) / (hi - lo + 1e-12) on one pixel
Quotient(xi, lo, hi) ==
    IF xi.nan \/ lo.nan \/ hi.nan THEN NaN
    ELSE [nan |-> FALSE, num |-> 100 * xi.num - lo.num, den |-> hi.num - lo.num, eps |-> 1]

\* (x - lo) / (hi - lo): 0/0 is NaN, n/0 is infinite and clipped
Quotient_noEps(xi, lo, hi) ==
    IF xi.nan \/ lo.nan \/ hi.nan \/ (hi.num = lo.num /\ 100 * xi.num = lo.num) THEN NaN
    ELSE [nan |-> FALSE, num |-> 100 * xi.num - lo.num, den |-> hi.num - lo.num, eps |-> 0]

\* np.clip(y, 0, 1) on one pixel: NaN stays NaN
Clip01(y) ==
    IF y.nan THEN NaN
    ELSE IF y.num <= 0 THEN Px(0)
    ELSE IF y.num > y.den \/ (y.num = y.den /\ y.eps = 0) THEN Px(1)
    ELSE y

\* .astype(np.float32) on one pixel of the clipped quotient: 1e-12 is less
\* than half the spacing of float32 beside a denominator hi - lo that is not 0,
\* so the value is the float32 of num / den, and 1.0 at num = den
AsFloat32(y) ==
    IF y.nan \/ y.eps = 0 THEN y
    ELSE IF y.num = y.den THEN Px(1)
    ELSE [y EXCEPT !.eps = 0]

\* the stretch without the epsilon of the denominator
stretch01_noEps(x, pmin, pmax) ==
    LET lo == nanpercentile(x, pmin)
        hi == nanpercentile(x, pmax)
    IN [i \in 1..Len(x) |-> Clip01(Quotient_noEps(x[i], lo, hi))]

\* stretch01(x, pmin=2, pmax=98)
stretch01(x, pmin, pmax) ==
    LET lo == nanpercentile(x, pmin)
        hi == nanpercentile(x, pmax)
    IN [i \in 1..Len(x) |-> AsFloat32(Clip01(Quotient(x[i], lo, hi)))]

\* vv_db - vh_db on one pixel
Minus(a, b) == IF a.nan \/ b.nan THEN NaN ELSE Px(a.num - b.num)

\* build_sar_rgb(vv_db, vh_db): the three channels of np.dstack([R, G, B])
build_sar_rgb(vv, vh) ==
    LET ratio == [i \in 1..Len(vv) |-> Minus(vv[i], vh[i])] IN
    [R |-> stretch01(vv, Pmin, Pmax),
     G |-> stretch01(vh, Pmin, Pmax),
     B |-> stretch01(ratio, Pmin, Pmax)]

-----------------------------------------------------------------------------
(* The pipelines *)

Variants == {"cdse_gdal", "cdse_pyrosar", "cog_gdal", "asf_pyrosar"}

CdseVariants == {"cdse_gdal", "cdse_pyrosar"}

GdalVariants == {"cdse_gdal", "cog_gdal"}

PyrosarVariants == {"cdse_pyrosar", "asf_pyrosar"}

VV_clip == "VV_clip.tif"

VH_clip == "VH_clip.tif"

S1_RGB == "S1_RGB.tif"

\* datetime.datetime.now().strftime("%Y%m%d_%H%M%S") when a run starts
Nows == {"20251201_000000"}

\* the __main__ block of each pipeline file: workdir = now + suffix
WorkdirSuffix(v) ==
    CASE v = "cdse_gdal" -> "_S1_CDSE_GDAL"
      [] v = "cdse_pyrosar" -> "_S1_CDSE_pyroSAR"
      [] v = "cog_gdal" -> "_S1_COG_GDAL"
      [] v = "asf_pyrosar" -> "_S1_ASF_pyroSAR"

Workdir(now, v) == <<now, WorkdirSuffix(v)>>

\* the identifiers catalog A hands to a run: one ending in _1234_COG, one
\* whose sensing times cannot be parsed
RunIds == { SceneStem(TA, TB) \o <<"_", "1", "2", "3", "4">> \o COG,
            Mission \o <<"_", "1", "2", "3", "4">> }

\* the answers of a catalog-A search: items with id and datetime
ItemLists == UNION {[1..n -> [id : RunIds, datetime : 1..2]] : n \in 0..MaxItems}

\* items.sort(key=datetime, reverse=True); items[0]: the sort is stable, so the
\* first of the items of the latest datetime
LatestItem(items) ==
    items[SetMin({i \in 1..Len(items) :
                    \A j \in 1..Len(items) : items[j].datetime <= items[i].datetime})]

\* an exception caught and logged, the run reported DONE
Raise_swallowed(e) == err' = e /\ pc' = "done"

\* raise: the exception leaves the pipeline function
Raise(e) == err' = e /\ pc' = "raised"

Step(stage) == stages' = Append(stages, stage)

\* stac_find_latest_s1_grd_item, as cdse_gdal and cdse_pyrosar call it
CdseDiscover ==
    /\ variant \in CdseVariants /\ pc = "discover"
    /\ Step("discover")
    /\ \E items \in ItemLists :
         IF items = <<>>
         THEN Raise(Error("RuntimeError", "No STAC items found for the given bbox/date range."))
              /\ UNCHANGED stac_id
         ELSE stac_id' = LatestItem(items).id /\ pc' = "match" /\ UNCHANGED err
    /\ UNCHANGED <<entry, pixels, variant, request, vals, parsed, prefix, product, vv_tif, vh_tif, files>>

\* cog_gdal: item = items[0], unsorted and unchecked
CogDiscover ==
    /\ variant = "cog_gdal" /\ pc = "discover"
    /\ Step("discover")
    /\ \E items \in ItemLists :
         IF items = <<>>
         THEN Raise(Error("IndexError", "list index out of range")) /\ UNCHANGED stac_id
         ELSE stac_id' = items[1].id /\ pc' = "download" /\ UNCHANGED err
    /\ UNCHANGED <<entry, pixels, variant, request, vals, parsed, prefix, product, vv_tif, vh_tif, files>>

\* asf_pyrosar: authentication, asf.search, the scene of the latest startTime
AsfDiscover ==
    /\ variant = "asf_pyrosar" /\ pc = "discover"
    /\ Step("discover")
    /\ \/ Raise(Error("ASFAuthenticationError", "auth_with_creds failed")) /\ UNCHANGED stac_id
       \/ \E results \in ItemLists :
            IF results = <<>>
            THEN Raise(Error("RuntimeError", "No ASF scenes found for bbox/date criteria."))
                 /\ UNCHANGED stac_id
            ELSE stac_id' = LatestItem(results).id /\ pc' = "download" /\ UNCHANGED err
    /\ UNCHANGED <<entry, pixels, variant, request, vals, parsed, prefix, product, vv_tif, vh_tif, files>>

\* product_id, product_name = cdse_odata_find_s1_grdh_product(bbox4326, stac_id)
CdseMatch ==
    /\ variant \in CdseVariants /\ pc = "match"
    /\ Step("match")
    /\ FindProduct("download")
    /\ UNCHANGED <<entry, pixels, variant, stac_id, vv_tif, vh_tif, files>>

\* cdse_get_access_token and cdse_download_safe_zip; the frame of the matcher
\* is gone
CdseDownload ==
    /\ variant \in CdseVariants /\ pc = "download"
    /\ Step("download")
    /\ request' = None /\ vals' = <<>> /\ parsed' = None /\ prefix' = None
    /\ \/ Raise(Error("HTTPError", "raise_for_status"))
       \/ pc' = "bands" /\ UNCHANGED err
    /\ UNCHANGED <<entry, pixels, variant, stac_id, product, vv_tif, vh_tif, files>>

\* cdse_gdal: the SAFE archive is extracted and the measurement TIFFs globbed
CdseGdalBands ==
    /\ variant = "cdse_gdal" /\ pc = "bands"
    /\ Step("bands")
    /\ \/ Raise(Error("RuntimeError", "VV or VH measurement TIFF not found in SAFE"))
          /\ UNCHANGED <<vv_tif, vh_tif>>
       \/ \E vv \in GcpSources, vh \in GcpSources :
            vv_tif' = vv /\ vh_tif' = vh /\ pc' = "clip_vv" /\ UNCHANGED err
    /\ UNCHANGED <<entry, pixels, variant, stac_id, request, vals, parsed, prefix, product, files>>

\* cog_gdal: s3.download_file of the vv and vh assets
CogDownload ==
    /\ variant = "cog_gdal" /\ pc = "download"
    /\ Step("download")
    /\ \/ Raise(Error("ClientError", "download_file failed")) /\ UNCHANGED <<vv_tif, vh_tif>>
       \/ \E vv \in GcpSources, vh \in GcpSources :
            vv_tif' = vv /\ vh_tif' = vh /\ pc' = "clip_vv" /\ UNCHANGED err
    /\ UNCHANGED <<entry, pixels, variant, stac_id, request, vals, parsed, prefix, product, files>>

\* asf_pyrosar: scene.download and the glob for the SAFE zip
AsfDownload ==
    /\ variant = "asf_pyrosar" /\ pc = "download"
    /\ Step("download")
    /\ \/ Raise(Error("RuntimeError", "SAFE zip not found after download."))
       \/ pc' = "bands" /\ UNCHANGED err
    /\ UNCHANGED <<entry, pixels, variant, stac_id, request, vals, parsed, prefix, product, vv_tif, vh_tif, files>>

\* cdse_pyrosar and asf_pyrosar: the AOI GeoJSON, pyroSAR geocode, and the glob
\* for the VV and VH GeoTIFFs it produced
PyrosarBands ==
    /\ variant \in PyrosarVariants /\ pc = "bands"
    /\ Step("bands")
    /\ \/ Raise(Error("RuntimeError", "geocode failed")) /\ UNCHANGED <<vv_tif, vh_tif>>
       \/ Raise(Error("RuntimeError", "Could not find VV/VH GeoTIFFs"))
          /\ UNCHANGED <<vv_tif, vh_tif>>
       \/ \E vv \in AffineSources, vh \in AffineSources :
            vv_tif' = vv /\ vh_tif' = vh /\ pc' = "clip_vv" /\ UNCHANGED err
    /\ UNCHANGED <<entry, pixels, variant, stac_id, request, vals, parsed, prefix, product, files>>

\* a clip call after which the run goes to the alignment check at once
WriteClip_toVerify(r, name, after) ==
    IF r.ok
    THEN files' = (name :> r.meta) @@ files /\ pc' = "verify" /\ UNCHANGED err
    ELSE Raise(r.error) /\ UNCHANGED files

\* a clip call: the file is written, or the exception leaves the run
WriteClip(r, name, after) ==
    IF r.ok
    THEN files' = (name :> r.meta) @@ files /\ pc' = after /\ UNCHANGED err
    ELSE Raise(r.error) /\ UNCHANGED files

\* warp_gcps_clip(vv_tif, vv_clip, bbox4326)
WarpVV ==
    /\ variant \in GdalVariants /\ pc = "clip_vv"
    /\ Step("clip_vv")
    /\ WriteClip(warp_gcps_clip(vv_tif, Bbox4326), VV_clip, "clip_vh")
    /\ UNCHANGED <<entry, pixels, variant, stac_id, request, vals, parsed, prefix, product, vv_tif, vh_tif>>

\* warp_gcps_clip(vh_tif, vh_clip, bbox4326)
WarpVH ==
    /\ variant \in GdalVariants /\ pc = "clip_vh"
    /\ Step("clip_vh")
    /\ WriteClip(warp_gcps_clip(vh_tif, Bbox4326), VH_clip, "verify")
    /\ UNCHANGED <<entry, pixels, variant, stac_id, request, vals, parsed, prefix, product, vv_tif, vh_tif>>

\* clip_to_bbox4326(vv_tif, vv_clip, bbox4326)
ClipVV ==
    /\ variant \in PyrosarVariants /\ pc = "clip_vv"
    /\ Step("clip_vv")
    /\ WriteClip(clip_to_bbox4326(vv_tif, Bbox4326), VV_clip, "clip_vh")
    /\ UNCHANGED <<entry, pixels, variant, stac_id, request, vals, parsed, prefix, product, vv_tif, vh_tif>>

\* clip_to_bbox4326(vh_tif, vh_clip, bbox4326)
ClipVH ==
    /\ variant \in PyrosarVariants /\ pc = "clip_vh"
    /\ Step("clip_vh")
    /\ WriteClip(clip_to_bbox4326(vh_tif, Bbox4326), VH_clip, "verify")
    /\ UNCHANGED <<entry, pixels, variant, stac_id, request, vals, parsed, prefix, product, vv_tif, vh_tif>>

\* where a run goes once its alignment check has passed: asf_pyrosar builds
\* the composite, the other pipelines print DONE
AfterVerify(v) == IF v = "asf_pyrosar" THEN "composite" ELSE "done"

\* "Verify alignment", the same four comparisons in the four pipelines
Verify ==
    /\ variant \in Variants /\ pc = "verify"
    /\ Step("verify")
    /\ IF Misaligned(files[VV_clip], files[VH_clip])
       THEN Raise(AlignmentError)
       ELSE pc' = AfterVerify(variant) /\ UNCHANGED err
    /\ UNCHANGED <<entry, pixels, variant, stac_id, request, vals, parsed, prefix, product, vv_tif, vh_tif, files>>

\* asf_pyrosar, step 4: band 1 of the two clips is read, the nodata value the
\* clips declare (0, as the geocoded rasters do) made NaN, build_sar_rgb
\* called and S1_RGB.tif written with the profile of the VV clip
Composite ==
    /\ variant = "asf_pyrosar" /\ pc = "composite"
    /\ Step("composite")
    /\ \E vv \in RasterBands(files[VV_clip]), vh \in RasterBands(files[VH_clip]) :
         /\ vv_db' = NodataToNaN(vv, Px(files[VV_clip].nodata))
         /\ vh_db' = NodataToNaN(vh, Px(files[VH_clip].nodata))
    /\ rgb' = build_sar_rgb(vv_db', vh_db')
    /\ files' = (S1_RGB :> write_rgb_geotiff(files[VV_clip])) @@ files
    /\ pc' = "done"
    /\ UNCHANGED <<entry, variant, stac_id, request, vals, parsed, prefix, product, err, vv_tif, vh_tif>>

\* a pipeline function called from the __main__ block of its file: the working
\* directory is made and the run is at its discovery stage
Init ==
    /\ variant \in Variants
    /\ pc = "discover"
    /\ stac_id = None
    /\ request = None /\ vals = <<>> /\ parsed = None /\ prefix = None
    /\ product = None
    /\ err = None
    /\ vv_tif = None /\ vh_tif = None
    /\ files = <<>>
    /\ stages = <<>>
    /\ pipeline = None
    /\ \E now \in Nows : workdir = Workdir(now, variant)
    /\ vv_db = None /\ vh_db = None /\ rgb = None

Next ==
    \/ CdseDiscover \/ CogDiscover \/ AsfDiscover
    \/ CdseMatch
    \/ CdseDownload \/ CogDownload \/ AsfDownload
    \/ CdseGdalBands \/ PyrosarBands
    \/ WarpVV \/ WarpVH \/ ClipVV \/ ClipVH
    \/ Verify
    \/ Composite

Spec == Init /\ [][Next]_vars

-----------------------------------------------------------------------------
(* main.py: the entry point *)

\* the names the modules main.py imports from bind at their top level: their
\* functions and the names they import themselves
ModuleNames(module) ==
    CASE module = "cdse_gdal" ->
           {"os", "time", "zipfile", "glob", "datetime", "rasterio", "gdal",
            "cdse_download_safe_zip", "cdse_get_access_token",
            "cdse_odata_find_s1_grdh_product", "stac_find_latest_s1_grd_item",
            "CDSE_USERNAME", "CDSE_PASSWORD", "warp_gcps_clip", "cdse_gdal"}
      [] module = "asf_pyrosar" ->
           {"os", "time", "glob", "json", "datetime", "np", "asf", "rasterio", "mask",
            "box", "mapping", "shp_transform", "Transformer", "identify", "geocode",
            "EARTHDATA_USERNAME", "EARTHDATA_PASSWORD", "write_aoi_geojson_from_bbox",
            "to_db", "stretch01", "build_sar_rgb", "clip_to_bbox4326",
            "write_rgb_geotiff", "main"}
      [] module = "cdse_pyrosar" ->
           {"os", "glob", "time", "datetime", "rasterio", "identify", "geocode",
            "cdse_download_safe_zip", "cdse_get_access_token",
            "cdse_odata_find_s1_grdh_product", "clip_to_bbox4326",
            "stac_find_latest_s1_grd_item", "write_aoi_geojson_from_bbox",
            "CDSE_USERNAME", "CDSE_PASSWORD", "pyrosar_rtc_geocode_safe_zip",
            "cdse_pyrosar"}

\* lines 2-4 of main.py: from module import name
Imports ==
    << [module |-> "cdse_gdal", name |-> "cdse_gdal"],
       [module |-> "asf_pyrosar", name |-> "asf_pyrosar"],
       [module |-> "cdse_pyrosar", name |-> "cdse_pyrosar"] >>

\* the values of the pipeline argument: the three of the list of main, and others
PipelineNames == {"GDAL", "ASF", "CDSE", "COG", "gdal", ""}

\* ["GDAL", "ASF", "CDSE"]
ValidPipelines == {"GDAL", "ASF", "CDSE"}

\* the body of main after its test: the function called and its workdir
Dispatch(p, now) ==
    IF p = "GDAL" THEN [callee |-> "cdse_gdal", workdir |-> <<now, "_S1_CDSE_GDAL">>]
    ELSE IF p = "ASF" THEN [callee |-> "asf_pyrosar", workdir |-> <<now, "_S1_ASF_pyroSAR">>]
    ELSE [callee |-> "cdse_pyrosar", workdir |-> <<now, "_S1_CDSE_pyroSAR">>]

\* python main.py, or import main: the module is executed from its first line
\* (pc = "import"); and main called by a program that has bound the three
\* names itself, asf_pyrosar to the pipeline function of asf_pyrosar.py
\* (pc = "call")
InitMain ==
    /\ variant = "main"
    /\ pc \in {"import", "call"}
    /\ pipeline \in PipelineNames
    /\ workdir = None
    /\ stac_id = None
    /\ request = None /\ vals = <<>> /\ parsed = None /\ prefix = None
    /\ product = None
    /\ err = None
    /\ vv_tif = None /\ vh_tif = None
    /\ files = <<>>
    /\ stages = <<>>
    /\ vv_db = None /\ vh_db = None /\ rgb = None

\* the import statements of main.py: each name is looked up in its module; when
\* all are found, main is defined and the __main__ block calls it; else
\* ImportError: cannot import name, with the first name that is not found
LoadMain ==
    /\ variant = "main" /\ pc = "import"
    /\ LET missing == {i \in 1..Len(Imports) :
                          Imports[i].name \notin ModuleNames(Imports[i].module)}
       IN IF missing = {}
          THEN pc' = "call" /\ UNCHANGED err
          ELSE Raise(Error("ImportError", Imports[SetMin(missing)].name))
    /\ UNCHANGED <<entry, pixels, variant, stac_id, request, vals, parsed, prefix, product,
                   vv_tif, vh_tif, files, stages>>

\* main(bbox4326, date_start, date_end, target_crs, pipeline), up to the first
\* statement of the pipeline function it calls, os.makedirs(workdir)
CallMain ==
    /\ variant = "main" /\ pc = "call"
    /\ IF pipeline \notin ValidPipelines
       THEN Raise(Error("ValueError", "Invalid pipeline name.")) /\ UNCHANGED <<variant, workdir>>
       ELSE \E now \in Nows :
              /\ variant' = Dispatch(pipeline, now).callee
              /\ workdir' = Dispatch(pipeline, now).workdir
              /\ pc' = "discover"
              /\ UNCHANGED err
    /\ UNCHANGED <<pixels, pipeline, stac_id, request, vals, parsed, prefix, product,
                   vv_tif, vh_tif, files, stages>>

\* what a call of main may run: the cdse_gdal, asf_pyrosar and cdse_pyrosar
\* pipelines
NextMain ==
    \/ LoadMain \/ CallMain
    \/ CdseDiscover \/ AsfDiscover
    \/ CdseMatch
    \/ CdseDownload \/ AsfDownload
    \/ CdseGdalBands \/ PyrosarBands
    \/ WarpVV \/ WarpVH \/ ClipVV \/ ClipVH
    \/ Verify
    \/ Composite

SpecMain == InitMain /\ [][NextMain]_vars

-----------------------------------------------------------------------------
(* build_sar_rgb called on the bands of two clipped rasters *)

\* step 4 of asf_pyrosar, up to the composite: the two clipped datasets are
\* open (vv_src in vv_tif, vh_src in vh_tif)
InitComposite ==
    /\ variant = "build_sar_rgb"
    /\ pc = "composite"
    /\ \E n \in 1..MaxPixels :
         /\ vv_tif \in ClippedBands(n)
         /\ vh_tif \in ClippedBands(n)
    /\ stac_id = None
    /\ request = None /\ vals = <<>> /\ parsed = None /\ prefix = None
    /\ product = None
    /\ err = None
    /\ files = <<>>
    /\ stages = <<>>
    /\ pipeline = None /\ workdir = None
    /\ vv_db = None /\ vh_db = None /\ rgb = None

\* vv_db and vh_db are read, their nodata pixels made NaN, and
\* rgb = build_sar_rgb(vv_db, vh_db)
CallBuildSarRgb ==
    /\ variant = "build_sar_rgb"
    /\ pc = "composite"
    /\ vv_db' = NodataToNaN(vv_tif.band, vv_tif.nodata)
    /\ vh_db' = NodataToNaN(vh_tif.band, vh_tif.nodata)
    /\ rgb' = build_sar_rgb(vv_db', vh_db')
    /\ pc' = "returned"
    /\ stages' = Append(stages, "composite")
    /\ UNCHANGED <<entry, variant, stac_id, request, vals, parsed, prefix, product, err,
                   vv_tif, vh_tif, files>>

NextComposite == CallBuildSarRgb

SpecComposite == InitComposite /\ [][NextComposite]_vars

-----------------------------------------------------------------------------
(* Claims about the catalog matcher, checked under SpecMatcher *)

\* positions of vals whose Name starts with the prefix
PrefixHits == {i \in 1..Len(vals) : StartsWith(vals[i].Name, prefix)}

Returned == variant = "matcher" /\ pc = "returned"

\* C1: for a non-empty candidate list the matcher returns the (Id, Name) of the
\* first candidate, in list order, whose Name starts with the prefix, and the
\* (Id, Name) of the first candidate of the list when no Name starts with it.
C1_FirstPrefixMatchOrFirst ==
    Returned =>
        IF PrefixHits # {}
        THEN \E i \in PrefixHits :
                /\ \A j \in 1..(i - 1) : j \notin PrefixHits
                /\ product = [Id |-> vals[i].Id, Name |-> vals[i].Name]
        ELSE product = [Id |-> vals[1].Id, Name |-> vals[1].Name]

\* exactly one of three candidates matches the prefix, and it is the last one
C1_Witness ==
    /\ Returned
    /\ Len(vals) = 3
    /\ PrefixHits = {3}
    /\ product = [Id |-> vals[3].Id, Name |-> vals[3].Name]

\* C2: the matcher either fails, returning nothing, or returns exactly one
\* (Id, Name) pair of a member of the result set; an empty result set is the
\* no-match error.
C2_OneMemberOrFail ==
    variant = "matcher" /\ pc # "match" =>
        /\ pc \in {"returned", "raised"}
        /\ pc = "raised" <=> err # None
        /\ pc = "raised" => product = None
        /\ pc = "returned" <=>
              /\ vals # <<>>
              /\ \E i \in 1..Len(vals) :
                    product = [Id |-> vals[i].Id, Name |-> vals[i].Name]
        /\ (request # None /\ vals = <<>> /\ err.type # "RequestException")
              => err = NoProductsError

\* the fallback: a non-empty result set, no prefix match, the first one returned
C2_Witness ==
    /\ Returned
    /\ Len(vals) >= 2
    /\ PrefixHits = {}
    /\ product = [Id |-> vals[1].Id, Name |-> vals[1].Name]

\* C3: with two or more prefix matches of distinct publication dates the
\* matcher returns the prefix match published last, whatever else the list
\* holds.
C3_LatestPublishedPrefixMatch ==
    (/\ Returned
     /\ Cardinality(PrefixHits) >= 2
     /\ \A i, j \in PrefixHits :
            i # j => vals[i].PublicationDate # vals[j].PublicationDate)
    => \E i \in PrefixHits :
          /\ product = [Id |-> vals[i].Id, Name |-> vals[i].Name]
          /\ \A j \in PrefixHits : vals[j].PublicationDate <= vals[i].PublicationDate

\* two prefix matches, the one published last is returned although a scene
\* acquired later (no prefix match) heads the list
C3_Witness ==
    /\ Returned
    /\ Len(vals) = 3
    /\ PrefixHits = {2, 3}
    /\ vals[2].PublicationDate > vals[3].PublicationDate
    /\ product = [Id |-> vals[2].Id, Name |-> vals[2].Name]

\* the identifier without a trailing _COG
WithoutCog(s) == IF EndsWith(s, COG) THEN SubSeq(s, 1, Len(s) - Len(COG)) ELSE s

\* the identifier without "_" + 4 characters of `codes` (and without _COG after
\* them); the identifier itself when it does not end so
WithoutVariant(s, IsCode(_)) ==
    LET b == WithoutCog(s) IN
    IF Len(b) >= 5 /\ b[Len(b) - 4] = "_" /\ IsCode(SubSeq(b, Len(b) - 3, Len(b)))
    THEN SubSeq(b, 1, Len(b) - 5)
    ELSE s

\* any 4 characters that hold no "_"
AnyCode(c) == \A k \in 1..4 : c[k] # "_"

\* 4 characters of 0-9 and A-F
HexCode(c) == \A k \in 1..4 : IsHexUpper(c[k])

\* C4 as stated: the prefix is the identifier without its trailing "_" + 4
\* characters (and _COG), whatever the 4 characters are.
C4_AnyVariantCode ==
    Returned => prefix = WithoutVariant(stac_id, AnyCode)

\* the identifier without the newline that is its last character
Chomp(s) == IF Len(s) >= 1 /\ s[Len(s)] = "\n" THEN SubSeq(s, 1, Len(s) - 1) ELSE s

\* the newline Chomp takes away, or nothing
LineEnd(s) == SubSeq(s, Len(Chomp(s)) + 1, Len(s))

\* C4 as amended: the prefix is the identifier without its trailing variant code
\* (and _COG) when the code is 4 characters of 0-9 and A-F, a newline that
\* ends the identifier set aside and kept; every other identifier is its own
\* prefix.
C4_HexVariantCode ==
    Returned => prefix = WithoutVariant(Chomp(stac_id), HexCode) \o LineEnd(stac_id)

\* a hexadecimal code followed by _COG has been stripped
C4_Witness ==
    /\ Returned
    /\ EndsWith(stac_id, <<"_", "0", "F", "0", "F">> \o COG)
    /\ prefix = SceneStem(TA, TB)

\* a code that is no hexadecimal number stays in the prefix
C4_WitnessKept ==
    /\ Returned
    /\ EndsWith(stac_id, <<"_", "G", "F", "G", "G">>)
    /\ prefix = stac_id

\* C10: parse_s1_times_from_name fails or returns (start, end) with
\* start <= end.
C10_StartNotAfterEnd ==
    parsed # None => DTLeq(parsed.t0, parsed.t1)

-----------------------------------------------------------------------------
(* Claims about the pipelines, checked under Spec *)

\* the positions of the stage log where `stage` ran
StageAt(stage) == {i \in 1..Len(stages) : stages[i] = stage}

Ran(stage) == StageAt(stage) # {}

ClippedVV == files[VV_clip]

ClippedVH == files[VH_clip]

\* the four fields of the two clipped rasters agree
SameGrid(a, b) ==
    /\ a.crs = b.crs
    /\ a.transform = b.transform
    /\ a.width = b.width
    /\ a.height = b.height

\* C5: in every pipeline the alignment check passes exactly when CRS, transform,
\* width and height of VV_clip and VH_clip are all equal; a difference in one
\* field alone makes it fail.
C5_PassIffAllFourEqual ==
    (variant \in Variants /\ Ran("verify")) =>
        /\ pc \in {"composite", "done"} <=> SameGrid(ClippedVV, ClippedVH)
        /\ (pc = "raised" /\ err = AlignmentError) <=> ~SameGrid(ClippedVV, ClippedVH)

\* the heights differ by one pixel, the other three fields agree, the check failed
C5_Witness ==
    /\ Ran("verify")
    /\ ClippedVV.crs = ClippedVH.crs
    /\ ClippedVV.transform = ClippedVH.transform
    /\ ClippedVV.width = ClippedVH.width
    /\ ClippedVV.height = ClippedVH.height + 1
    /\ err = AlignmentError

AlignmentFields == {"crs", "transform", "width", "height"}

\* the fields of the two rasters that differ
MismatchedFields(a, b) == {f \in AlignmentFields : a[f] # b[f]}

\* the fields an exception names: those it carries, none when it carries a
\* class and a message only
ReportedFields(e) == IF "fields" \in DOMAIN e THEN e.fields ELSE {}

\* C6: when the alignment check fails, the error reports the fields that
\* differ, and exactly those.
C6_ErrorNamesMismatchedFields ==
    (Ran("verify") /\ pc = "raised") =>
        ReportedFields(err) = MismatchedFields(ClippedVV, ClippedVH)

\* C7: the composite is built and S1_RGB.tif written only after the alignment
\* check of the run has passed; a run whose check fails builds and writes
\* nothing.
C7_CompositeOnlyAfterPass ==
    /\ (pc = "composite" \/ Ran("composite") \/ S1_RGB \in DOMAIN files) =>
          /\ SameGrid(ClippedVV, ClippedVH)
          /\ \A j \in StageAt("composite") : \E i \in StageAt("verify") : i < j
          /\ Ran("verify")
    /\ (Ran("verify") /\ ~SameGrid(ClippedVV, ClippedVH)) =>
          /\ ~Ran("composite")
          /\ S1_RGB \notin DOMAIN files
          /\ pc = "raised"

\* a run that wrote the composite, after its check passed
C7_Witness ==
    /\ variant = "asf_pyrosar"
    /\ pc = "done"
    /\ S1_RGB \in DOMAIN files
    /\ SameGrid(ClippedVV, ClippedVH)
    /\ stages[Len(stages)] = "composite"
    /\ stages[Len(stages) - 1] = "verify"

\* the conditions under which a stage that has run has failed
StageFailed ==
    \/ Ran("match") /\ ~parse_s1_times_from_name(stac_id).ok
    \/ Ran("match") /\ request # None /\ vals = <<>> /\ ~Ran("download")
    \/ Ran("clip_vv") /\ variant \in PyrosarVariants /\ vv_tif.crs = NoCRS
    \/ Ran("clip_vh") /\ variant \in PyrosarVariants /\ vh_tif.crs = NoCRS
    \/ Ran("clip_vv") /\ variant \in GdalVariants /\ ~vv_tif.readable
    \/ Ran("clip_vh") /\ variant \in GdalVariants /\ ~vh_tif.readable
    \/ Ran("verify") /\ ~SameGrid(ClippedVV, ClippedVH)

\* C8: an error in any stage aborts the run: the exception is the outcome of
\* the run, no stage runs after it and the run is never DONE.
C8_ErrorAbortsRun ==
    /\ [](variant \in Variants =>
            /\ err # None <=> pc = "raised"
            /\ StageFailed => pc = "raised"
            /\ pc = "done" => err = None)
    /\ [][pc = "raised" => UNCHANGED vars]_vars

\* a run aborted by a raster without CRS: VV_clip not written, no later stage
C8_Witness ==
    /\ variant = "cdse_pyrosar"
    /\ pc = "raised"
    /\ Ran("clip_vv")
    /\ stages[Len(stages)] = "clip_vv"
    /\ vv_tif.crs = NoCRS
    /\ err = Error("ValueError", "has no CRS; cannot clip.")
    /\ DOMAIN files = {}

\* C9 as stated: every run that is DONE has written VV_clip, VH_clip and the
\* 3-band composite, built after the alignment check.
C9_DoneHasComposite ==
    pc = "done" =>
        /\ {VV_clip, VH_clip, S1_RGB} \subseteq DOMAIN files
        /\ \E i \in StageAt("verify"), j \in StageAt("composite") : i < j

\* what the pipelines do: every run that is DONE has written VV_clip and
\* VH_clip and passed the alignment check after both; the asf_pyrosar pipeline
\* has also written the 3-band composite, built after the check; cdse_gdal,
\* cdse_pyrosar and cog_gdal are DONE without a composite.
C9_DoneHasClipsAsfComposite ==
    pc = "done" =>
        /\ {VV_clip, VH_clip} \subseteq DOMAIN files
        /\ SameGrid(ClippedVV, ClippedVH)
        /\ \E i \in StageAt("clip_vv"), j \in StageAt("clip_vh"), k \in StageAt("verify") :
              i < j /\ j < k
        /\ IF variant = "asf_pyrosar"
           THEN /\ S1_RGB \in DOMAIN files
                /\ files[S1_RGB].count = 3
                /\ \E i \in StageAt("verify"), j \in StageAt("composite") : i < j
           ELSE /\ S1_RGB \notin DOMAIN files
                /\ ~Ran("composite")

\* an asf_pyrosar run that is DONE, with its three files
C9_Witness ==
    /\ variant = "asf_pyrosar"
    /\ pc = "done"
    /\ DOMAIN files = {VV_clip, VH_clip, S1_RGB}
    /\ files[S1_RGB].count = 3

\* a cdse_gdal run that is DONE, with its two files
C9_WitnessNoComposite ==
    /\ variant = "cdse_gdal"
    /\ pc = "done"
    /\ DOMAIN files = {VV_clip, VH_clip}

-----------------------------------------------------------------------------
(* Claims about stretch01 and build_sar_rgb, checked under SpecComposite *)

Built == variant = "build_sar_rgb" /\ pc = "returned"

\* a number of the closed interval [0, 1]
InUnit(y) == ~y.nan /\ 0 <= y.num /\ y.num <= y.den

\* a band whose pixels are one and the same number
ConstantBand(b) == \A i \in 1..Len(b) : ~b[i].nan /\ b[i] = b[1]

\* the stretch01 calls whose argument is a band of the run: input and output
StretchCalls == {[x |-> vv_db, y |-> rgb.R], [x |-> vh_db, y |-> rgb.G]}

\* C11 as stated: every value stretch01 returns lies in [0, 1], whatever the
\* input band, and a constant band is stretched to 0 at every pixel.
C11_StretchInUnitInterval ==
    Built =>
        \A c \in StretchCalls :
            /\ \A i \in 1..Len(c.y) : InUnit(c.y[i])
            /\ ConstantBand(c.x) => \A i \in 1..Len(c.y) : c.y[i] = Px(0)

\* what stretch01 does: a pixel that is a number is stretched into [0, 1], a
\* NaN pixel stays NaN, a constant band is stretched to 0 at every pixel
C11_ValidPixelsInUnitInterval ==
    Built =>
        \A c \in StretchCalls :
            /\ \A i \in 1..Len(c.y) : IF c.x[i].nan THEN c.y[i] = NaN ELSE InUnit(c.y[i])
            /\ ConstantBand(c.x) => \A i \in 1..Len(c.y) : c.y[i] = Px(0)

\* a band with a nodata pixel has been stretched
C11_WitnessNaN ==
    /\ Built
    /\ \E i \in 1..Len(vv_db) : vv_db[i].nan /\ rgb.R[i] = NaN
    /\ \E i \in 1..Len(vv_db) : ~vv_db[i].nan

\* the smallest and the largest number of a band
IsMin(b, i) == ~b[i].nan /\ \A j \in 1..Len(b) : b[j].nan \/ b[i].num <= b[j].num

IsMax(b, i) == ~b[i].nan /\ \A j \in 1..Len(b) : b[j].nan \/ b[j].num <= b[i].num

\* ch is the stretch of band b: NaN where b is NaN, 0 at the smallest number
\* of b, and at the top of the range at the largest when b holds two numbers
StretchOf(b, ch) ==
    \A i \in 1..Len(b) :
        /\ ch[i].nan <=> b[i].nan
        /\ IsMin(b, i) => ch[i] = Px(0)
        /\ (IsMax(b, i) /\ ~IsMin(b, i)) => (~ch[i].nan /\ ch[i].num >= ch[i].den)

\* C12: on two identical bands the blue channel of build_sar_rgb is 0 at
\* every valid pixel, never NaN there; on all bands red is stretch01 of VV and
\* green is stretch01 of VH.
C12_IdenticalBandsBlueZero ==
    Built =>
        /\ rgb.R = stretch01(vv_db, Pmin, Pmax) /\ StretchOf(vv_db, rgb.R)
        /\ rgb.G = stretch01(vh_db, Pmin, Pmax) /\ StretchOf(vh_db, rgb.G)
        /\ vv_db = vh_db =>
              \A i \in 1..Len(vv_db) : ~vv_db[i].nan => rgb.B[i] = Px(0)

\* two identical bands of two different numbers and a nodata pixel: blue is 0
\* at the numbers, red spans the range
C12_Witness ==
    /\ Built
    /\ vv_db = vh_db
    /\ \E i, j, k \in 1..Len(vv_db) :
         /\ vv_db[i].nan
         /\ ~vv_db[j].nan /\ rgb.B[j] = Px(0) /\ rgb.R[j] = Px(0)
         /\ ~vv_db[k].nan /\ rgb.B[k] = Px(0) /\ rgb.R[k] = Px(1)

\* two different bands: red follows VV and green follows VH
C12_WitnessChannels ==
    /\ Built
    /\ \E i \in 1..Len(vv_db) :
         /\ vv_db[i] # vh_db[i]
         /\ rgb.R[i] = Px(0) /\ rgb.G[i] = Px(1)

-----------------------------------------------------------------------------
(* Claims about the order of the stages, checked under Spec *)

\* the order of the stages as the specification gives it; download/geocode
\* is "download" followed by "bands" (extraction or geocoding)
StageOrder ==
    <<"discover", "match", "download", "bands", "clip_vv", "clip_vh", "verify", "composite">>

Rank(stage) == CHOOSE i \in 1..Len(StageOrder) : StageOrder[i] = stage

\* the stages a pipeline has: cog_gdal and asf_pyrosar have no match stage,
\* cog_gdal downloads the bands themselves, asf_pyrosar alone has a composite
StageChain(v) ==
    CASE v \in CdseVariants -> SubSeq(StageOrder, 1, 7)
      [] v = "cog_gdal" -> <<"discover", "download", "clip_vv", "clip_vh", "verify">>
      [] v = "asf_pyrosar" -> <<"discover">> \o SubSeq(StageOrder, 3, 8)

\* C13: the stages of a run execute in the order discovery, match,
\* download/geocode, clip VV, clip VH, verify, composite, each after its
\* predecessor has completed; the alignment check starts only after the VV
\* clip and the VH clip have both completed and been written.
C13_StagesInOrder ==
    /\ \A i, j \in 1..Len(stages) : i < j => Rank(stages[i]) < Rank(stages[j])
    /\ Len(stages) <= Len(StageChain(variant))
    /\ \A i \in 1..Len(stages) : stages[i] = StageChain(variant)[i]
    /\ (pc = "verify" \/ Ran("verify")) =>
          /\ \E i \in StageAt("clip_vv"), j \in StageAt("clip_vh") :
                i < j /\ \A k \in StageAt("verify") : j < k
          /\ {VV_clip, VH_clip} \subseteq DOMAIN files
    /\ pc \notin {"raised", "done"} => pc = StageChain(variant)[Len(stages) + 1]

\* a cdse_gdal run has gone through its seven stages, a match among them
C13_Witness ==
    /\ variant = "cdse_gdal"
    /\ stages = SubSeq(StageOrder, 1, 7)
    /\ pc = "done"

\* an asf_pyrosar run has gone through its stages, the composite the last
C13_WitnessComposite ==
    /\ variant = "asf_pyrosar"
    /\ stages = StageChain("asf_pyrosar")
    /\ pc = "done"

-----------------------------------------------------------------------------
(* Claims about the query sent to catalog B, checked under SpecMatcher *)

\* the second after dt and the second before dt, by the calendar
Succ(dt) ==
    IF dt.s < 59 THEN [dt EXCEPT !.s = dt.s + 1]
    ELSE IF dt.m < 59 THEN [dt EXCEPT !.s = 0, !.m = dt.m + 1]
    ELSE IF dt.h < 23 THEN [dt EXCEPT !.s = 0, !.m = 0, !.h = dt.h + 1]
    ELSE IF dt.D < DaysInMonth(dt.Y, dt.M) THEN DT(dt.Y, dt.M, dt.D + 1, 0, 0, 0)
    ELSE IF dt.M < 12 THEN DT(dt.Y, dt.M + 1, 1, 0, 0, 0)
    ELSE DT(dt.Y + 1, 1, 1, 0, 0, 0)

Pred(dt) ==
    IF dt.s > 0 THEN [dt EXCEPT !.s = dt.s - 1]
    ELSE IF dt.m > 0 THEN [dt EXCEPT !.s = 59, !.m = dt.m - 1]
    ELSE IF dt.h > 0 THEN [dt EXCEPT !.s = 59, !.m = 59, !.h = dt.h - 1]
    ELSE IF dt.D > 1 THEN DT(dt.Y, dt.M, dt.D - 1, 23, 59, 59)
    ELSE IF dt.M > 1 THEN DT(dt.Y, dt.M - 1, DaysInMonth(dt.Y, dt.M - 1), 23, 59, 59)
    ELSE DT(dt.Y - 1, 12, 31, 23, 59, 59)

RECURSIVE Later(_, _)
Later(dt, k) == IF k = 0 THEN dt ELSE Later(Succ(dt), k - 1)

RECURSIVE Earlier(_, _)
Earlier(dt, k) == IF k = 0 THEN dt ELSE Earlier(Pred(dt), k - 1)

\* sub in s
Contains(s, sub) ==
    \E i \in 1..(Len(s) - Len(sub) + 1) : SubSeq(s, i, i + Len(sub) - 1) = sub

\* the number a sequence of digits writes
RECURSIVE Decimal(_)
Decimal(s) ==
    IF s = <<>> THEN 0 ELSE 10 * Decimal(SubSeq(s, 1, Len(s) - 1)) + DigitVal(s[Len(s)])

\* the date-time a timestamp Y-MM-DDThh:mm:ss.000Z writes, its year of any
\* number of digits
IsoFields(a) ==
    LET k == CHOOSE i \in 1..Len(a) : a[i] = "-" /\ \A j \in 1..(i - 1) : a[j] # "-" IN
    DT(Decimal(SubSeq(a, 1, k - 1)), Num2(a, k + 1), Num2(a, k + 4),
       Num2(a, k + 7), Num2(a, k + 10), Num2(a, k + 13))


\* the box of a polygon ring meets the box b
BoxesMeet(ring, b) ==
    LET xs == {ring[i][1] : i \in 1..Len(ring)}
        ys == {ring[i][2] : i \in 1..Len(ring)}
    IN /\ \E x \in xs : x <= b.maxx
       /\ \E x \in xs : b.minx <= x
       /\ \E y \in ys : y <= b.maxy
       /\ \E y \in ys : b.miny <= y

\* the filter term e with the timestamps of its comparisons read as date-times
RECURSIVE ReadDates(_)
ReadDates(e) ==
    IF e.op \in {"and", "or", "not"}
    THEN Term(e.op, [i \in 1..Len(e.args) |-> ReadDates(e.args[i])])
    ELSE IF e.op \in {"ge", "le"} THEN Term(e.op, <<e.args[1], IsoFields(e.args[2])>>)
    ELSE e

\* the product p of catalog B satisfies the filter term e, its dates read
RECURSIVE Holds(_, _)
Holds(e, p) ==
    CASE e.op = "and" -> \A i \in 1..Len(e.args) : Holds(e.args[i], p)
      [] e.op = "or" -> \E i \in 1..Len(e.args) : Holds(e.args[i], p)
      [] e.op = "not" -> ~Holds(e.args[1], p)
      [] e.op = "eq" -> p.Collection = e.args[2]
      [] e.op = "contains" -> Contains(p.Name, e.args[2])
      [] e.op = "endswith" -> EndsWith(p.Name, e.args[2])
      [] e.op = "intersects" -> BoxesMeet(e.args[2].polygon, p.Footprint)
      [] e.op = "ge" -> DTLeq(e.args[2], p.Start)
      [] e.op = "le" -> DTLeq(p.Start, e.args[2])

\* names of products: .SAFE, .safe, a COG, another mode, another container
ProbeNames ==
    { <<"S", "1", "_">> \o IW_GRDH \o SAFE,
      <<"S", "1", "_">> \o IW_GRDH \o safe,
      <<"S", "1", "_">> \o IW_GRDH \o COG \o SAFE,
      <<"S", "1", "_", "E", "W", "_", "G", "R", "D", "M">> \o SAFE,
      <<"S", "1", "_">> \o IW_GRDH \o <<".", "z", "i", "p">> }

\* products of every name that start at t0; products that start 5 s and 6 s
\* before and after t0, and at t1; a product of another collection; a product
\* beside the area of interest
Probes(t0, t1) ==
    { [Collection |-> "SENTINEL-1", Name |-> n, Start |-> t0, Footprint |-> Bbox4326] :
        n \in ProbeNames }
    \cup
    { [Collection |-> "SENTINEL-1", Name |-> <<"S", "1", "_">> \o IW_GRDH \o SAFE,
       Start |-> t, Footprint |-> Bbox4326] :
        t \in {t1, Earlier(t0, 5), Earlier(t0, 6), Later(t0, 5), Later(t0, 6)} }
    \cup
    { [Collection |-> c, Name |-> <<"S", "1", "_">> \o IW_GRDH \o SAFE,
       Start |-> t0, Footprint |-> [Bbox4326 EXCEPT !.minx = x, !.maxx = x + 1]] :
        c \in {"SENTINEL-1", "SENTINEL-2"}, x \in {0, MaxDim + 1} }

\* a query has been sent
Sent == variant = "matcher" /\ request # None

\* C14: the window of the query is [start - 5 s, start + 5 s], start the
\* first time of the identifier, whatever the second; the filter accepts a
\* product exactly when its start is in the window and it is of SENTINEL-1
\* and its name holds IW_GRDH and ends with .SAFE or .safe and holds no _COG
\* and it meets the area of interest.
C14_WindowAroundStart ==
    Sent =>
        \A lo \in {Earlier(parsed.t0, ToleranceSeconds)},
           hi \in {Later(parsed.t0, ToleranceSeconds)},
           g \in {ReadDates(request.filter)} :
            /\ request.filter.op = "and"
            /\ g.args[6] = Term("ge", <<"ContentDate/Start", lo>>)
            /\ g.args[7] = Term("le", <<"ContentDate/Start", hi>>)
            /\ \A p \in Probes(parsed.t0, parsed.t1) :
                  Holds(g, p) <=>
                      /\ p.Collection = "SENTINEL-1"
                      /\ Contains(p.Name, IW_GRDH)
                      /\ EndsWith(p.Name, SAFE) \/ EndsWith(p.Name, safe)
                      /\ ~Contains(p.Name, COG)
                      /\ BoxesMeet(bbox4326_to_odata_polygon(Bbox4326).polygon, p.Footprint)
                      /\ DTLeq(lo, p.Start) /\ DTLeq(p.Start, hi)

\* a query for a scene that starts three seconds before the end of a leap day
\* and ends in another year: the window ends on the first of March
C14_Witness ==
    /\ Sent
    /\ parsed.t0 = DT(2024, 2, 29, 23, 59, 57)
    /\ parsed.t1 = DT(2025, 1, 1, 0, 0, 25)
    /\ request.filter.args[6].args[2] = Iso(DT(2024, 2, 29, 23, 59, 52))
    /\ request.filter.args[7].args[2] = Iso(DT(2024, 3, 1, 0, 0, 2))

\* the window of a scene that starts in the last second of the year 9999
\* cannot be computed: no query is sent
C14_WitnessOverflow ==
    /\ variant = "matcher"
    /\ pc = "raised"
    /\ err = Error("OverflowError", "date value out of range")
    /\ parsed # None /\ parsed.t0.Y = 9999
    /\ request = None

-----------------------------------------------------------------------------
(* Claims about clip_to_bbox4326, checked under Spec *)

NoCrsError == Error("ValueError", "has no CRS; cannot clip.")

\* out has the metadata of src, height, width and transform apart
KeepsMetadata(src, out) ==
    /\ DOMAIN out = DOMAIN src
    /\ \A f \in DOMAIN src \ {"height", "width", "transform"} : out[f] = src[f]

\* the run is about to clip a source that declares no CRS
ClipsNoCrs ==
    /\ variant \in PyrosarVariants
    /\ \/ pc = "clip_vv" /\ vv_tif.crs = NoCRS
       \/ pc = "clip_vh" /\ vh_tif.crs = NoCRS

\* C15: clip_to_bbox4326 on a source without CRS raises the no-CRS error and
\* leaves the output directory as it was, the output file not created; on a
\* source with a CRS the file written has the CRS and every other metadata
\* field of the source, height, width and transform apart.
C15_NoCrsFailsBeforeWrite ==
    /\ [](variant \in PyrosarVariants =>
            /\ (Ran("clip_vv") /\ vv_tif.crs = NoCRS) =>
                  (pc = "raised" /\ err = NoCrsError /\ VV_clip \notin DOMAIN files)
            /\ (Ran("clip_vh") /\ vh_tif.crs = NoCRS) =>
                  (pc = "raised" /\ err = NoCrsError /\ VH_clip \notin DOMAIN files)
            /\ VV_clip \in DOMAIN files =>
                  (files[VV_clip].crs = vv_tif.crs /\ KeepsMetadata(vv_tif, files[VV_clip]))
            /\ VH_clip \in DOMAIN files =>
                  (files[VH_clip].crs = vh_tif.crs /\ KeepsMetadata(vh_tif, files[VH_clip])))
    /\ [][ClipsNoCrs => (files' = files /\ err' = NoCrsError /\ pc' = "raised")]_vars

\* the VV source, in EPSG:32634, has been clipped and written, still in
\* EPSG:32634; the VH source declares no CRS: the clip failed, VH_clip.tif
\* was not created and VV_clip.tif is as written
C15_Witness ==
    /\ variant \in PyrosarVariants
    /\ Ran("clip_vh")
    /\ vh_tif.crs = NoCRS
    /\ err = NoCrsError
    /\ DOMAIN files = {VV_clip}
    /\ vv_tif.crs = CRS32634
    /\ files[VV_clip].crs = CRS32634
    /\ files[VV_clip].dtype = vv_tif.dtype
    /\ files[VV_clip].nodata = vv_tif.nodata

-----------------------------------------------------------------------------
(* Claims about the entry point, checked under SpecMain *)

\* the pipeline each name stands for
PipelineOf(p) ==
    CASE p = "GDAL" -> "cdse_gdal"
      [] p = "ASF" -> "asf_pyrosar"
      [] p = "CDSE" -> "cdse_pyrosar"

\* the call of main is over: its pipeline is DONE, or an exception has left it
Over == pc \in {"done", "raised"}

\* the pipeline v has run in the working directory named for it
RanPipeline(v) ==
    /\ variant = v
    /\ Ran("discover")
    /\ \E now \in Nows : workdir = Workdir(now, v)

\* the module main.py could not be loaded
ImportFailed == pc = "raised" /\ err.type = "ImportError"

\* no stage has run and no working directory has been made
NothingRan == variant = "main" /\ stages = <<>> /\ workdir = None /\ files = <<>>

\* C16 as stated: 'GDAL' runs the cdse_gdal pipeline, 'ASF' the asf_pyrosar
\* pipeline and 'CDSE' the cdse_pyrosar pipeline, each in a working directory
\* named for it, and no other; any other name raises an error before a stage
\* runs or a working directory is made.
C16_NameSelectsPipeline ==
    /\ (Over /\ pipeline \in ValidPipelines) => RanPipeline(PipelineOf(pipeline))
    /\ variant # "main" => (pipeline \in ValidPipelines /\ variant = PipelineOf(pipeline))
    /\ (Over /\ pipeline \notin ValidPipelines) => (pc = "raised" /\ NothingRan)

\* what the body of main does, once called: the same, for every call that did
\* not end in the ImportError of the module
C16_BodySelectsPipeline ==
    /\ (Over /\ pipeline \in ValidPipelines /\ ~ImportFailed) =>
          RanPipeline(PipelineOf(pipeline))
    /\ variant # "main" => (pipeline \in ValidPipelines /\ variant = PipelineOf(pipeline))
    /\ (Over /\ pipeline \notin ValidPipelines) => (pc = "raised" /\ NothingRan)

\* python main.py with pipeline = "GDAL": the import of line 3 has failed
C16_WitnessImportError ==
    /\ pipeline = "GDAL"
    /\ ImportFailed
    /\ err.msg = "asf_pyrosar"
    /\ NothingRan

\* main called with pipeline "ASF": the asf_pyrosar pipeline is DONE
C16_WitnessAsf ==
    /\ pipeline = "ASF"
    /\ pc = "done"
    /\ RanPipeline("asf_pyrosar")

====
